---- MODULE Spec2Model ----
(***************************************************************************)
(* A model of the AWS cost analyzer: the cost calculations                 *)
(* (utils/cost-calculations.ts), the error classification, the date        *)
(* helpers and the aws-cost-fetcher tool (utils/error-handlers.ts).        *)
(*                                                                         *)
(* Numbers.  Amounts are integers (currency units).  A percentage that the *)
(* code rounds to two decimals is held as an integer number of hundredths  *)
(* of a percent (PctUnit of them make one percent), and the arithmetic is  *)
(* exact: binary floating point error is not modelled.  A percentage the   *)
(* code does not round (a service's share) is held as an exact fraction.   *)
(*                                                                         *)
(* Specifications.  SpecCalc applies the exported cost calculations to     *)
(* inputs drawn from bounded sets, SpecErr does so for handleAWSError,     *)
(* SpecAnalyze for processAndAnalyzeCostData, SpecPeriod for               *)
(* extractPeriodFromQuery, SpecSummary for generateCostSummary,            *)
(* SpecServices for getTopServices and generateCostOptimizationSuggestions *)
(* on one list of services, and Spec is one run of the tool's execute.     *)
(***************************************************************************)
EXTENDS Integers, Sequences, FiniteSets, TLC

(* A variable of execute that may not be set yet holds <<>> until it is set *)
(* and <<v>> from then on.                                                 *)
VARIABLES
    call,               \* a direct call of a function: its arguments and return value
    tzOffset,           \* the process's time zone: local time minus UTC, in hours
    pc,                 \* execute: the position of the invocation
    extractedPeriod,    \* execute: const extractedPeriod
    currentPeriodData,  \* execute: const currentPeriodData
    previousPeriodData, \* execute: const previousPeriodData
    fetches,            \* the periods of the commands sent to Cost Explorer, in order
    caught,             \* execute: the value caught by the catch clause, and the step that threw it
    result              \* execute: the value returned to the caller

vars ==
    <<call, tzOffset, pc, extractedPeriod, currentPeriodData, previousPeriodData, fetches,
      caught, result>>

execVars ==
    <<tzOffset, pc, extractedPeriod, currentPeriodData, previousPeriodData, fetches, caught,
      result>>

\* A value that is absent (undefined, or a missing property).
Absent == "absent"

NoCall == [fn |-> "none", returned |-> FALSE]

----------------------------------------------------------------------------
(* Bounds of the model. *)

\* Amounts handed to calculatePercentageChange directly: -MaxCalcAmount..MaxCalcAmount.
MaxCalcAmount == 33

\* Changes and thresholds handed to determineTrend directly.
MaxTrendArg == 8

----------------------------------------------------------------------------
(* Arithmetic helpers. *)

Abs(x) == IF x < 0 THEN -x ELSE x

Sign(x) == IF x > 0 THEN 1 ELSE IF x < 0 THEN -1 ELSE 0

\* floor(a / b) for b # 0.
FloorDiv(a, b) == IF b > 0 THEN a \div b ELSE (-a) \div (-b)

\* Math.round(n / d): the nearest integer, a tie going up (towards +Infinity).
MathRound(n, d) == FloorDiv(2 * n + d, 2 * d)

\* Hundredths of a percent in one percent: the code rounds with
\* Math.round(change * 100) / 100.
PctUnit == 100

----------------------------------------------------------------------------
(* utils/cost-calculations.ts *)

calculatePercentageChange_noPositiveTest(current, previous) ==
    IF previous = 0
    THEN 100 * PctUnit
    ELSE MathRound((current - previous) * 100 * PctUnit, previous)

calculatePercentageChange(current, previous) ==
    IF previous = 0
    THEN (IF current > 0 THEN 100 * PctUnit ELSE 0)
    ELSE MathRound((current - previous) * 100 * PctUnit, previous)

\* The default of determineTrend's threshold parameter: 5 percent.
DefaultThreshold == 5 * PctUnit

determineTrend_inclusiveStable(percentageChange, threshold) ==
    IF Abs(percentageChange) <= threshold
    THEN "stable"
    ELSE IF percentageChange > 0 THEN "increasing" ELSE "decreasing"

determineTrend(percentageChange, threshold) ==
    LET absChange == Abs(percentageChange)
    IN  IF absChange < threshold
        THEN "stable"
        ELSE IF percentageChange > 0 THEN "increasing" ELSE "decreasing"

----------------------------------------------------------------------------
(* Direct calls of the cost calculations. *)

CalcAmounts == (-MaxCalcAmount)..MaxCalcAmount

TrendChanges ==
    ((-MaxTrendArg)..MaxTrendArg)
        \cup {DefaultThreshold + k : k \in -1..1}
        \cup {-DefaultThreshold + k : k \in -1..1}

TrendThresholds == (-1..MaxTrendArg) \cup {DefaultThreshold}

\* No invocation of execute.
ExecIdle ==
    /\ tzOffset = 0
    /\ pc = "idle"
    /\ extractedPeriod = <<>>
    /\ currentPeriodData = <<>>
    /\ previousPeriodData = <<>>
    /\ fetches = <<>>
    /\ caught = <<>>
    /\ result = <<>>

\* The ret field of a call that has not returned yet (returned = FALSE).
Pending == "pending"

CalcCalls ==
    [fn : {"calculatePercentageChange"}, current : CalcAmounts, previous : CalcAmounts,
     ret : {Pending}, returned : {FALSE}]
        \cup [fn : {"determineTrend"}, percentageChange : TrendChanges,
              threshold : TrendThresholds, ret : {Pending}, returned : {FALSE}]

CallCalculatePercentageChange ==
    /\ call.fn = "calculatePercentageChange"
    /\ ~call.returned
    /\ call' = [call EXCEPT !.ret = calculatePercentageChange(call.current, call.previous),
                            !.returned = TRUE]
    /\ UNCHANGED execVars

CallDetermineTrend ==
    /\ call.fn = "determineTrend"
    /\ ~call.returned
    /\ call' = [call EXCEPT !.ret = determineTrend(call.percentageChange, call.threshold),
                            !.returned = TRUE]
    /\ UNCHANGED execVars

InitCalc == call \in CalcCalls /\ ExecIdle

NextCalc == CallCalculatePercentageChange \/ CallDetermineTrend

SpecCalc == InitCalc /\ [][NextCalc]_vars

----------------------------------------------------------------------------
(* Claims about the cost calculations. *)

IsPctCall == call.fn = "calculatePercentageChange" /\ call.returned

IsTrendCall == call.fn = "determineTrend" /\ call.returned

\* C1: with previous = 0, calculatePercentageChange returns 100 when
\* current > 0 and 0 otherwise (current = 0 or current < 0).
C1_ZeroPrevious ==
    (IsPctCall /\ call.previous = 0) =>
        call.ret = (IF call.current > 0 THEN 100 * PctUnit ELSE 0)

C1_Witness ==
    /\ IsPctCall
    /\ call.previous = 0
    /\ call.current < 0
    /\ call.ret = 0

\* r is n / d rounded to the nearest integer (a tie either way).
IsNearest(r, n, d) == 2 * Abs(r * d - n) <= Abs(d)

\* C2: for every nonzero previous, positive or negative, the result is
\* ((current - previous) / previous) * 100 rounded to two decimals and its
\* sign equals the sign of current - previous.
C2_RoundedAndSignConsistent ==
    (IsPctCall /\ call.previous # 0) =>
        /\ IsNearest(call.ret, (call.current - call.previous) * 100 * PctUnit, call.previous)
        /\ Sign(call.ret) = Sign(call.current - call.previous)

\* C3: determineTrend(c, t) is 'stable' exactly when |c| < t; otherwise
\* 'increasing' for a positive c and 'decreasing' for a negative c; at
\* |c| = t the result is not 'stable'.
C3_Trend ==
    IsTrendCall =>
        LET c == call.percentageChange
            t == call.threshold
        IN  /\ (call.ret = "stable") <=> (Abs(c) < t)
            /\ (Abs(c) >= t /\ c > 0) => call.ret = "increasing"
            /\ (Abs(c) >= t /\ c < 0) => call.ret = "decreasing"
            /\ (Abs(c) = t) => call.ret # "stable"

C3_Witness ==
    /\ IsTrendCall
    /\ call.threshold = DefaultThreshold
    /\ call.percentageChange = -DefaultThreshold
    /\ call.ret = "decreasing"

----------------------------------------------------------------------------
(* The Cost Explorer response and processAndAnalyzeCostData.               *)
(*                                                                         *)
(* An Amount is the API's decimal string: <<n>> for the string of the      *)
(* number n, <<>> for one that is missing (or empty).  A report is the     *)
(* first entry of ResultsByTime: Total is Total.UnblendedCost.Amount, Unit *)
(* is Total.UnblendedCost.Unit, and Groups the groups, each with Key       *)
(* (Keys[0]) and Amount (Metrics.UnblendedCost.Amount).  An empty Groups   *)
(* stands for a missing Groups as well: the code's tests `if (Groups)`     *)
(* only guard loops that do nothing on an empty list.                      *)

\* The groups of the two reports of one analysis, together.
MaxGroups == 2

\* Amounts of a report: -1..MaxAmount.
MaxAmount == 2

\* parseFloat(amount || '0')
ParseAmount(amount) == IF amount = <<>> THEN 0 ELSE amount[1]

RECURSIVE SumOfAmounts(_)
\* The loop `for (const group of Groups) total += parseFloat(Amount || '0')`.
SumOfAmounts(groups) ==
    IF groups = <<>>
    THEN 0
    ELSE SumOfAmounts(SubSeq(groups, 1, Len(groups) - 1)) + ParseAmount(groups[Len(groups)].Amount)

\* A fraction n / d, for a number the code does not round.
Frac(n, d) == [num |-> n, den |-> d]

ServiceShare_wholePercent(cost, totalCost) ==
    IF totalCost > 0 THEN Frac(MathRound(cost * 100, totalCost), 1) ELSE Frac(0, 1)

\* service.percentage = totalCost > 0 ? (service.cost / totalCost) * 100 : 0
ServiceShare(cost, totalCost) ==
    IF totalCost > 0 THEN Frac(cost * 100, totalCost) ELSE Frac(0, 1)

PreviousServiceCost_firstGroup(groups, serviceName) ==
    IF groups = <<>> THEN 0 ELSE ParseAmount(groups[1].Amount)

\* previousResults?.Groups?.find(g => g.Keys?.[0] === serviceName), the first
\* such group, and then
\* parseFloat(previousServiceGroup?.Metrics?.UnblendedCost?.Amount || '0')
PreviousServiceCost(groups, serviceName) ==
    LET hits == {i \in 1..Len(groups) : groups[i].Key = serviceName}
    IN  IF hits = {}
        THEN 0
        ELSE ParseAmount(groups[CHOOSE i \in hits : \A j \in hits : i <= j].Amount)

GuardedPercentageChange_unguarded(current, previous) ==
    calculatePercentageChange(current, previous)

\* The fallback of the two guarded uses of calculatePercentageChange:
\* previous > 0 ? calculatePercentageChange(current, previous) : (current > 0 ? 100 : 0)
GuardedPercentageChange(current, previous) ==
    IF previous > 0
    THEN calculatePercentageChange(current, previous)
    ELSE (IF current > 0 THEN 100 * PctUnit ELSE 0)

ServiceEntry_keyAsName(group, previousGroups) ==
    LET serviceName == group.Key
        serviceCost == ParseAmount(group.Amount)
        previousServiceCost == PreviousServiceCost(previousGroups, serviceName)
    IN  [name |-> serviceName,
         cost |-> serviceCost,
         percentage |-> Frac(0, 1),
         previousPeriodChange |-> GuardedPercentageChange(serviceCost, previousServiceCost)]

\* The entry pushed for one group of the current report (lines 557-581).
ServiceEntry(group, previousGroups) ==
    LET serviceName == IF group.Key \in {Absent, ""} THEN "Unknown" ELSE group.Key
        serviceCost == ParseAmount(group.Amount)
        previousServiceCost == PreviousServiceCost(previousGroups, serviceName)
    IN  [name |-> serviceName,
         cost |-> serviceCost,
         percentage |-> Frac(0, 1),
         previousPeriodChange |-> GuardedPercentageChange(serviceCost, previousServiceCost)]

InsertByCost_tiesFirst(sorted, x) ==
    LET before == {i \in 1..Len(sorted) : sorted[i].cost > x.cost}
        k == IF before = {} THEN 0 ELSE CHOOSE i \in before : \A j \in before : j <= i
    IN  SubSeq(sorted, 1, k) \o <<x>> \o SubSeq(sorted, k + 1, Len(sorted))

\* Array.prototype.sort((a, b) => b.cost - a.cost): descending by cost and
\* stable.  x is placed behind every entry whose cost is not smaller.
InsertByCost(sorted, x) ==
    LET before == {i \in 1..Len(sorted) : sorted[i].cost >= x.cost}
        k == IF before = {} THEN 0 ELSE CHOOSE i \in before : \A j \in before : j <= i
    IN  SubSeq(sorted, 1, k) \o <<x>> \o SubSeq(sorted, k + 1, Len(sorted))

RECURSIVE SortByCost(_)
SortByCost(services) ==
    IF services = <<>>
    THEN <<>>
    ELSE InsertByCost(SortByCost(SubSeq(services, 1, Len(services) - 1)),
                      services[Len(services)])

\* getTopServices(services, topN): sort, then slice(0, topN).
getTopServices(services, topN) ==
    LET sorted == SortByCost(services)
    IN  SubSeq(sorted, 1, IF Len(sorted) < topN THEN Len(sorted) ELSE topN)

\* The currency codes Intl.NumberFormat accepts; with any other, its
\* constructor throws a RangeError.
IsWellFormedCurrencyCode(currency) == currency \in {"USD", "EUR"}

InvalidCurrencyError ==
    [kind |-> "Error", name |-> "RangeError", message |-> <<"Invalid currency code">>]

\* The services the summary of utils/cost-calculations.ts lists.
SummaryTopN == 3

\* generateCostSummary, for a currency formatCurrency accepts.  The text is
\* held by its parts; periodStart is the date whose month and year it names.
\* data.trends.monthOverMonth is optional: <<>> when absent, <<n>> when n.
generateCostSummary(data) ==
    IF data.trends.monthOverMonth = <<>> \/ data.trends.monthOverMonth[1] = 0
    THEN [form |-> "short", periodStart |-> data.period.start,
          totalCost |-> data.totalCost, currency |-> data.currency]
    ELSE [form |-> "long", periodStart |-> data.period.start,
          totalCost |-> data.totalCost, currency |-> data.currency,
          sign |-> IF data.trends.monthOverMonth[1] > 0 THEN "+" ELSE "",
          percentageChange |-> data.trends.monthOverMonth[1],
          trendText |-> CASE data.trends.trend = "increasing" -> "increase"
                          [] data.trends.trend = "decreasing" -> "decrease"
                          [] OTHER -> "stable",
          topServices |-> [i \in 1..Len(getTopServices(data.services, SummaryTopN)) |->
                              LET sv == getTopServices(data.services, SummaryTopN)[i]
                              IN  [name |-> sv.name, cost |-> sv.cost,
                                   percentage |-> sv.percentage]]]

\* The current period's total: apiTotalCost > 0 ? apiTotalCost : calculatedTotalCost
CurrentTotalCost(apiTotalCost, calculatedTotalCost) ==
    IF apiTotalCost > 0 THEN apiTotalCost ELSE calculatedTotalCost

\* The previous period's total (lines 529-542).
PreviousTotalCost(previousResults) ==
    IF ParseAmount(previousResults.Total) = 0
    THEN SumOfAmounts(previousResults.Groups)
    ELSE ParseAmount(previousResults.Total)

\* processAndAnalyzeCostData: [status |-> "return", value |-> the data,
\* locals |-> its local totals] or [status |-> "throw", error |-> the error].
processAndAnalyzeCostData(currentResults, previousResults, period) ==
    LET apiTotalCost == ParseAmount(currentResults.Total)
        currency == IF currentResults.Unit \in {Absent, ""} THEN "USD" ELSE currentResults.Unit
        previousTotalCost == PreviousTotalCost(previousResults)
        pushed == [i \in 1..Len(currentResults.Groups) |->
                      ServiceEntry(currentResults.Groups[i], previousResults.Groups)]
        calculatedTotalCost == SumOfAmounts(currentResults.Groups)
        totalCost == CurrentTotalCost(apiTotalCost, calculatedTotalCost)
        services == [i \in 1..Len(pushed) |->
                        [pushed[i] EXCEPT !.percentage = ServiceShare(pushed[i].cost, totalCost)]]
        monthOverMonth == GuardedPercentageChange(totalCost, previousTotalCost)
        trends == [monthOverMonth |-> monthOverMonth,
                   trend |-> determineTrend(monthOverMonth, DefaultThreshold)]
        tempData == [period |-> period, totalCost |-> totalCost, currency |-> currency,
                     services |-> SortByCost(services),
                     trends |-> [monthOverMonth |-> <<monthOverMonth>>, trend |-> trends.trend]]
    IN  IF ~IsWellFormedCurrencyCode(currency)
        THEN [status |-> "throw", error |-> InvalidCurrencyError]
        ELSE [status |-> "return",
              value |-> [period |-> tempData.period, totalCost |-> tempData.totalCost,
                         currency |-> tempData.currency, services |-> tempData.services,
                         trends |-> trends,
                         summary |-> generateCostSummary(tempData)],
              locals |-> [apiTotalCost |-> apiTotalCost,
                          calculatedTotalCost |-> calculatedTotalCost,
                          previousTotalCost |-> previousTotalCost]]

----------------------------------------------------------------------------
(* Direct calls of processAndAnalyzeCostData. *)

Amounts == {<<a>> : a \in -1..MaxAmount}

TotalAmounts == {<<>>} \cup Amounts

\* The key of a group (Keys[0]): missing, empty, or a name.
GroupKeys == {Absent, "", "A", "B"}

Groups == [Key : GroupKeys, Amount : Amounts]

\* The lists of exactly n groups.
RECURSIVE GroupLists(_)
GroupLists(n) ==
    IF n = 0 THEN {<<>>} ELSE {Append(l, g) : l \in GroupLists(n - 1), g \in Groups}

CurrentReports(n) == [Total : TotalAmounts, Unit : {Absent, "N/A"}, Groups : GroupLists(n)]

PreviousReports(n) == [Total : TotalAmounts, Unit : {Absent}, Groups : GroupLists(n)]

\* The period of a direct call: May 2025.
AnalyzedPeriod == [start |-> [y |-> 2025, m |-> 5, d |-> 1], end |-> [y |-> 2025, m |-> 5, d |-> 31]]

CallProcessAndAnalyzeCostData ==
    /\ call.fn = "processAndAnalyzeCostData"
    /\ ~call.returned
    /\ call' = [call EXCEPT
                   !.ret = processAndAnalyzeCostData(call.currentData, call.previousData,
                                                     call.period),
                   !.returned = TRUE]
    /\ UNCHANGED execVars

\* A call with a current and a previous report of at most MaxGroups groups
\* together.
InitAnalyze ==
    /\ \E n \in 0..MaxGroups, k \in 0..MaxGroups :
           /\ n + k <= MaxGroups
           /\ \E c \in CurrentReports(n), p \in PreviousReports(k) :
                  call = [fn |-> "processAndAnalyzeCostData", currentData |-> c,
                          previousData |-> p, period |-> AnalyzedPeriod,
                          ret |-> Pending, returned |-> FALSE]
    /\ ExecIdle

NextAnalyze == CallProcessAndAnalyzeCostData

SpecAnalyze == InitAnalyze /\ [][NextAnalyze]_vars

----------------------------------------------------------------------------
(* Claims about processAndAnalyzeCostData. *)

\* The call returned a result (it did not throw).
Analyzed ==
    /\ call.fn = "processAndAnalyzeCostData"
    /\ call.returned
    /\ call.ret.status = "return"

HasNonzeroGroup(report) == \E i \in 1..Len(report.Groups) : ParseAmount(report.Groups[i].Amount) # 0

\* The reconciliation rule of the claim: the declared total, unless it is
\* exactly zero while some group has a nonzero amount; then the group sum.
ReconciledTotal(report) ==
    IF ParseAmount(report.Total) = 0 /\ HasNonzeroGroup(report)
    THEN SumOfAmounts(report.Groups)
    ELSE ParseAmount(report.Total)

\* C4: for the current and for the previous report, the normalized total is
\* the declared total unless that is exactly zero while a group is nonzero,
\* and then the sum of the group amounts; a nonzero declared total, positive
\* or negative, is never replaced.
C4_DeclaredTotalAuthoritative ==
    Analyzed =>
        /\ call.ret.value.totalCost = ReconciledTotal(call.currentData)
        /\ call.ret.locals.previousTotalCost = ReconciledTotal(call.previousData)

FracEq(p, q) == p.num * q.den = q.num * p.den

FracAdd(p, q) == Frac(p.num * q.den + q.num * p.den, p.den * q.den)

RECURSIVE SumOfShares(_)
SumOfShares(services) ==
    IF services = <<>>
    THEN Frac(0, 1)
    ELSE FracAdd(SumOfShares(SubSeq(services, 1, Len(services) - 1)),
                 services[Len(services)].percentage)

RECURSIVE SumOfCosts(_)
SumOfCosts(services) ==
    IF services = <<>>
    THEN 0
    ELSE SumOfCosts(SubSeq(services, 1, Len(services) - 1)) + services[Len(services)].cost

\* C5 as stated: each share is amount / totalCost * 100, the shares sum to
\* 100 whenever totalCost > 0, and every share is 0 when totalCost = 0.
C5_SharesSumTo100 ==
    Analyzed =>
        LET v == call.ret.value
        IN  /\ v.totalCost # 0 =>
                \A i \in 1..Len(v.services) :
                    FracEq(v.services[i].percentage, Frac(v.services[i].cost * 100, v.totalCost))
            /\ v.totalCost > 0 => FracEq(SumOfShares(v.services), Frac(100, 1))
            /\ v.totalCost = 0 =>
                \A i \in 1..Len(v.services) : FracEq(v.services[i].percentage, Frac(0, 1))

\* C5 as amended: each share is amount / totalCost * 100 when totalCost > 0
\* and 0 when totalCost <= 0; for totalCost > 0 the shares sum to
\* 100 * (sum of the amounts) / totalCost, which is 100 exactly when the
\* amounts sum to totalCost, as they do whenever the total was computed from
\* the groups (the declared total not being positive).
C5_SharesOfFinalTotal ==
    Analyzed =>
        LET v == call.ret.value
        IN  /\ \A i \in 1..Len(v.services) :
                   FracEq(v.services[i].percentage,
                          IF v.totalCost > 0
                          THEN Frac(v.services[i].cost * 100, v.totalCost)
                          ELSE Frac(0, 1))
            /\ v.totalCost > 0 =>
                   /\ FracEq(SumOfShares(v.services),
                             Frac(100 * SumOfCosts(v.services), v.totalCost))
                   /\ FracEq(SumOfShares(v.services), Frac(100, 1))
                          <=> (SumOfCosts(v.services) = v.totalCost)
            /\ (v.totalCost > 0 /\ ParseAmount(call.currentData.Total) <= 0) =>
                   FracEq(SumOfShares(v.services), Frac(100, 1))

\* A total computed from two groups of 1 and 2: shares of a third and two
\* thirds, which sum to 100.
C5_Witness ==
    /\ Analyzed
    /\ ParseAmount(call.currentData.Total) = 0
    /\ call.ret.value.totalCost = 3
    /\ Len(call.ret.value.services) = 2
    /\ FracEq(call.ret.value.services[2].percentage, Frac(100, 3))
    /\ FracEq(SumOfShares(call.ret.value.services), Frac(100, 1))

----------------------------------------------------------------------------
(* utils/error-handlers.ts: the error classification.                      *)
(*                                                                         *)
(* A text is a sequence of fragments, read as their concatenation.  A      *)
(* fragment includes a pattern when the pattern is a substring of it;      *)
(* Includes is String.prototype.includes on such a text (a pattern that    *)
(* straddles two fragments is not modelled).                               *)

\* The longest error message, in fragments.
MaxFragments == 2

\* The substrings handleAWSError looks for, in the order of its tests.
AuthenticationPatterns ==
    {"The security token included in the request is invalid",
     "SignatureDoesNotMatch", "InvalidAccessKeyId"}

AuthorizationPatterns == {"UnauthorizedOperation", "AccessDenied", "Forbidden"}

ThrottlingPatterns == {"Throttling", "RequestLimitExceeded", "TooManyRequests"}

ParameterPatterns == {"ValidationException", "InvalidParameter", "invalid date"}

HistoricalDataPatterns == {"You haven't enabled historical data", "historical data beyond"}

UnavailablePatterns == {"ServiceUnavailable", "InternalError", "500"}

QuotaPatterns == {"LimitExceeded", "exceeded your current quota"}

Patterns ==
    AuthenticationPatterns \cup AuthorizationPatterns \cup ThrottlingPatterns
        \cup ParameterPatterns \cup HistoricalDataPatterns \cup UnavailablePatterns
        \cup QuotaPatterns

\* Fragments of a message that are not themselves one of the patterns.
OtherFragments ==
    {"ThrottlingException", "connect ETIMEDOUT", "Error", "null", "[object Object]",
     "Invalid currency code"}

Fragments == Patterns \cup OtherFragments

\* The strings of interest that are substrings of fragment f: f itself and
\* the patterns it contains.
PatternsIn(f) ==
    {f}
        \cup (IF f = "RequestLimitExceeded" THEN {"LimitExceeded"} ELSE {})
        \cup (IF f = "ThrottlingException" THEN {"Throttling"} ELSE {})

Includes(text, pattern) == \E i \in 1..Len(text) : pattern \in PatternsIn(text[i])

IncludesAny(text, patterns) == \E p \in patterns : Includes(text, p)

AuthenticationSuggestions ==
    <<"1. Check AWS_ACCESS_KEY_ID and AWS_SECRET_ACCESS_KEY in .env file",
      "2. Verify access key is valid in AWS Console",
      "3. Ensure IAM user is in active status">>

AuthorizationSuggestions ==
    <<"1. Grant Cost Explorer permissions to IAM user",
      "2. Required permissions: ce:GetCostAndUsage, ce:GetDimensionValues",
      "3. Ask administrator to review IAM policies">>

ThrottlingSuggestions ==
    <<"1. Wait 5-10 minutes before retrying",
      "2. Avoid consecutive rapid executions",
      "3. Contact AWS support for limit increase if needed">>

ParameterSuggestions ==
    <<"1. Ensure date format is YYYY-MM-DD",
      "2. Verify start date is before end date",
      "3. Specify period within the last 13 months">>

HistoricalDataSuggestions ==
    <<"1. Enable data in AWS Billing and Cost Management (takes 24 hours)",
      "2. Try retrieving data for a shorter period",
      "3. Manually check data existence in Cost Explorer">>

UnavailableSuggestions ==
    <<"1. Retry after waiting a moment",
      "2. Check AWS Service Health Dashboard",
      "3. Contact AWS support if the problem persists">>

QuotaSuggestions ==
    <<"1. Check Usage Limits in billing settings",
      "2. Increase limits as needed",
      "3. Contact AWS support for limit increase">>

UnknownSuggestions ==
    <<"1. Retry after waiting a moment",
      "2. Check environment variable settings",
      "3. Contact administrator if the problem persists">>

IsAuthenticationError(errorMessage) == IncludesAny(errorMessage, AuthenticationPatterns)

IsAuthorizationError_noAccessDenied(errorMessage) ==
    IncludesAny(errorMessage, {"UnauthorizedOperation", "Forbidden"})

IsAuthorizationError(errorMessage) == IncludesAny(errorMessage, AuthorizationPatterns)

IsThrottlingError_rateOnly(errorMessage) ==
    IncludesAny(errorMessage, {"Throttling", "TooManyRequests"})

IsThrottlingError(errorMessage) == IncludesAny(errorMessage, ThrottlingPatterns)

IsParameterError(errorMessage) == IncludesAny(errorMessage, ParameterPatterns)

IsHistoricalDataError(errorMessage) == IncludesAny(errorMessage, HistoricalDataPatterns)

IsUnavailableError(errorMessage) == IncludesAny(errorMessage, UnavailablePatterns)

IsQuotaError(errorMessage) == IncludesAny(errorMessage, QuotaPatterns)

createErrorResponse_defaultSuggestions(errorType, message, suggestions, retryable) ==
    [success |-> FALSE, error |-> message, errorType |-> errorType,
     suggestions |-> <<>>, retryable |-> retryable]

createErrorResponse(errorType, message, suggestions, retryable) ==
    [success |-> FALSE, error |-> message, errorType |-> errorType,
     suggestions |-> suggestions, retryable |-> retryable]

\* An error value: a falsy value (kind "null": null, undefined, 0, ""), an
\* Error with a name and a message, a non-empty string, or another object.
\* ErrorOf is `error instanceof Error ? error : new Error(String(error))`.
ErrorOf(error) ==
    CASE error.kind = "Error" -> error
      [] error.kind = "string" -> [kind |-> "Error", name |-> "Error", message |-> error.text]
      [] error.kind = "null" -> [kind |-> "Error", name |-> "Error", message |-> <<"null">>]
      [] OTHER -> [kind |-> "Error", name |-> "Error", message |-> <<"[object Object]">>]

\* err.message || err.toString(): an empty message gives way to the error's
\* string form, which for an Error without a message is its name.
ErrorMessageOf(error) ==
    LET err == ErrorOf(error)
    IN  IF err.message # <<>> THEN err.message ELSE <<err.name>>

handleAWSError(error) ==
    LET errorMessage == ErrorMessageOf(error)
    IN  IF error.kind = "null"
        THEN createErrorResponse("UNKNOWN", <<"Unknown error occurred">>, <<>>, FALSE)
        ELSE IF IsAuthenticationError(errorMessage)
        THEN createErrorResponse("AUTHENTICATION",
                 <<"AWS credentials are invalid. Please check your access key and secret key.">>,
                 AuthenticationSuggestions, FALSE)
        ELSE IF IsAuthorizationError(errorMessage)
        THEN createErrorResponse("AUTHORIZATION",
                 <<"Insufficient access permissions to AWS Cost Explorer.">>,
                 AuthorizationSuggestions, FALSE)
        ELSE IF IsThrottlingError(errorMessage)
        THEN createErrorResponse("THROTTLING",
                 <<"AWS API rate limit reached. Please wait a moment and try again.">>,
                 ThrottlingSuggestions, TRUE)
        ELSE IF IsParameterError(errorMessage)
        THEN createErrorResponse("INVALID_PARAMETER",
                 <<"Request parameters are invalid. Please check date range and specification.">>,
                 ParameterSuggestions, FALSE)
        ELSE IF IsHistoricalDataError(errorMessage)
        THEN createErrorResponse("INVALID_PARAMETER",
                 <<"Cost Explorer historical data is not enabled or data for the specified period does not exist.">>,
                 HistoricalDataSuggestions, FALSE)
        ELSE IF IsUnavailableError(errorMessage)
        THEN createErrorResponse("SERVICE_UNAVAILABLE",
                 <<"AWS Cost Explorer service is temporarily unavailable.">>,
                 UnavailableSuggestions, TRUE)
        ELSE IF IsQuotaError(errorMessage)
        THEN createErrorResponse("QUOTA_EXCEEDED",
                 <<"AWS account usage limit exceeded.">>,
                 QuotaSuggestions, FALSE)
        ELSE createErrorResponse("UNKNOWN",
                 <<"Unexpected error occurred: ">> \o errorMessage,
                 UnknownSuggestions, TRUE)

----------------------------------------------------------------------------
(* Direct calls of handleAWSError. *)

\* The texts of at most n fragments.
RECURSIVE TextsUpTo(_)
TextsUpTo(n) ==
    IF n = 0
    THEN {<<>>}
    ELSE LET shorter == TextsUpTo(n - 1)
         IN  shorter \cup {Append(t, f) : t \in {u \in shorter : Len(u) = n - 1}, f \in Fragments}

Messages == TextsUpTo(MaxFragments)

ErrorInputs ==
    {[kind |-> "null"], [kind |-> "object"]}
        \cup {[kind |-> "Error", name |-> "Error", message |-> m] : m \in Messages}
        \cup {[kind |-> "string", text |-> m] : m \in Messages \ {<<>>}}

ErrCalls == [fn : {"handleAWSError"}, error : ErrorInputs, ret : {Pending}, returned : {FALSE}]

CallHandleAWSError ==
    /\ call.fn = "handleAWSError"
    /\ ~call.returned
    /\ call' = [call EXCEPT !.ret = handleAWSError(call.error), !.returned = TRUE]
    /\ UNCHANGED execVars

InitErr == call \in ErrCalls /\ ExecIdle

NextErr == CallHandleAWSError

SpecErr == InitErr /\ [][NextErr]_vars

----------------------------------------------------------------------------
(* Claims about handleAWSError. *)

IsErrCall == call.fn = "handleAWSError" /\ call.returned

\* The call's error has a message (it is not a falsy value).
HasMessage == call.error.kind # "null"

IsAuthorizationResponse(r) ==
    /\ r.errorType = "AUTHORIZATION"
    /\ r.retryable = FALSE
    /\ r.suggestions =
           <<"1. Grant Cost Explorer permissions to IAM user",
             "2. Required permissions: ce:GetCostAndUsage, ce:GetDimensionValues",
             "3. Ask administrator to review IAM policies">>

\* C7 as stated: every error whose message contains "AccessDenied",
\* whatever else the message contains, is classified AUTHORIZATION, not
\* retryable, with the three Cost Explorer permission suggestions in order.
C7_AccessDeniedAlways ==
    (IsErrCall /\ HasMessage /\ Includes(ErrorMessageOf(call.error), "AccessDenied")) =>
        IsAuthorizationResponse(call.ret)

\* C7 as amended: every error whose message contains "AccessDenied" and none
\* of the three authentication signatures is classified AUTHORIZATION, not
\* retryable, with the three Cost Explorer permission suggestions in order;
\* with an authentication signature in the message it is AUTHENTICATION.
C7_AccessDeniedUnlessAuthentication ==
    (IsErrCall /\ HasMessage /\ Includes(ErrorMessageOf(call.error), "AccessDenied")) =>
        IF IncludesAny(ErrorMessageOf(call.error), AuthenticationPatterns)
        THEN call.ret.errorType = "AUTHENTICATION"
        ELSE IsAuthorizationResponse(call.ret)

C7_Witness ==
    /\ IsErrCall
    /\ call.error.kind = "Error"
    /\ call.error.message = <<"connect ETIMEDOUT", "AccessDenied">>
    /\ IsAuthorizationResponse(call.ret)

RetryableTypes == {"THROTTLING", "SERVICE_UNAVAILABLE", "UNKNOWN"}

ErrorTypes ==
    {"AUTHENTICATION", "AUTHORIZATION", "THROTTLING", "INVALID_PARAMETER",
     "SERVICE_UNAVAILABLE", "QUOTA_EXCEEDED", "UNKNOWN"}

\* C8: for every input, falsy values included, retryable is true exactly
\* when the errorType is THROTTLING, SERVICE_UNAVAILABLE or UNKNOWN.
C8_RetryableByType ==
    IsErrCall =>
        /\ call.ret.errorType \in ErrorTypes
        /\ call.ret.retryable <=> (call.ret.errorType \in RetryableTypes)

----------------------------------------------------------------------------
(* Dates.                                                                  *)
(*                                                                         *)
(* A calendar date (the string YYYY-MM-DD) is a record [y, m, d].  A Date  *)
(* object is its instant: whole hours since 1970-01-01T00:00Z.  The local  *)
(* time zone is a fixed offset tz (local = UTC + tz hours); daylight       *)
(* saving changes within one computation are not modelled.                 *)

\* Days from 1970-01-01 to the civil date y-m-d (proleptic Gregorian).
DaysFromCivil(y, m, d) ==
    LET yy == IF m <= 2 THEN y - 1 ELSE y
        era == yy \div 400
        yoe == yy - era * 400
        mp == (m + 9) % 12
        doy == (153 * mp + 2) \div 5 + d - 1
        doe == yoe * 365 + yoe \div 4 - yoe \div 100 + doy
    IN  era * 146097 + doe - 719468

\* The civil date of day z after 1970-01-01.
CivilFromDays(z) ==
    LET zz == z + 719468
        era == zz \div 146097
        doe == zz - era * 146097
        yoe == (doe - doe \div 1460 + doe \div 36524 - doe \div 146096) \div 365
        doy == doe - (365 * yoe + yoe \div 4 - yoe \div 100)
        mp == (5 * doy + 2) \div 153
        d == doy - (153 * mp + 2) \div 5 + 1
        m == IF mp < 10 THEN mp + 3 ELSE mp - 9
    IN  [y |-> (yoe + era * 400) + (IF m <= 2 THEN 1 ELSE 0), m |-> m, d |-> d]

HoursPerDay == 24

\* The instant y-m-d h:00 UTC.
Instant(y, m, d, h) == DaysFromCivil(y, m, d) * HoursPerDay + h

\* new Date("YYYY-MM-DD"): midnight UTC of that date.
DateFromISO(date) == DaysFromCivil(date.y, date.m, date.d) * HoursPerDay

\* date.toISOString().split('T')[0]: the UTC calendar date of the instant.
ISODate(t) == CivilFromDays(FloorDiv(t, HoursPerDay))

\* The local calendar date of the instant: getFullYear(), getMonth() + 1, getDate().
LocalDate(t, tz) == CivilFromDays(FloorDiv(t + tz, HoursPerDay))

\* new Date(year, monthIndex, day): local midnight; monthIndex (0-based) and
\* day may lie outside their ranges and carry over.
DateFromLocal(year, monthIndex, day, tz) ==
    LET months == year * 12 + monthIndex
    IN  (DaysFromCivil(FloorDiv(months, 12), (months % 12) + 1, 1) + day - 1) * HoursPerDay - tz

\* date.setDate(day): the local day of the month replaced, the local month,
\* year and time of day kept.
SetDate(t, day, tz) ==
    LET local == LocalDate(t, tz)
    IN  (DaysFromCivil(local.y, local.m, 1) + day - 1) * HoursPerDay
            + ((t + tz) % HoursPerDay) - tz

\* Math.ceil(n / d) for d > 0.
CeilDiv(n, d) == -FloorDiv(-n, d)

PreviousPeriodOf_samePeriod(startDate, endDate, tz) ==
    [start |-> ISODate(DateFromISO(startDate)), end |-> ISODate(DateFromISO(endDate))]

\* fetchPreviousPeriodData: the period it hands to fetchCostData (lines 483-495).
PreviousPeriodOf(startDate, endDate, tz) ==
    LET start == DateFromISO(startDate)
        end == DateFromISO(endDate)
        daysDiff == CeilDiv(end - start, HoursPerDay)
        prevEnd == SetDate(start, LocalDate(start, tz).d - 1, tz)
        prevStart == SetDate(prevEnd, LocalDate(prevEnd, tz).d - daysDiff + 1, tz)
    IN  [start |-> ISODate(prevStart), end |-> ISODate(prevEnd)]

getMonthRange_endBeforeMonth(monthOffset, now, tz) ==
    LET year == LocalDate(now, tz).y
        month == (LocalDate(now, tz).m - 1) + monthOffset
        startDate == DateFromLocal(year, month, 1, tz)
        endDate == DateFromLocal(year, month, 0, tz)
    IN  [start |-> ISODate(startDate), end |-> ISODate(endDate)]

\* getMonthRange(monthOffset), at the instant now.
getMonthRange(monthOffset, now, tz) ==
    LET year == LocalDate(now, tz).y
        month == (LocalDate(now, tz).m - 1) + monthOffset
        startDate == DateFromLocal(year, month, 1, tz)
        endDate == DateFromLocal(year, month + 1, 0, tz)
    IN  [start |-> ISODate(startDate), end |-> ISODate(endDate)]

----------------------------------------------------------------------------
(* extractPeriodFromQuery.                                                 *)
(*                                                                         *)
(* A query is a sequence of words, read as the words joined by single      *)
(* spaces.  chrono.parse is a library outside the repository: its answer   *)
(* is an input, either no result or the first result's start components    *)
(* (year and month 0 when it gives null for them).                         *)

\* The longest query, in words.
MaxQueryWords == 2

QueryWords ==
    {"May", "february", "2025", "1500", "this", "This", "last", "current", "previous",
     "month", "costs"}

HasFourDigits_plausibleYear(word) == word \in {"2025"}

\* /\b\d{4}\b/ matches inside the word.
HasFourDigits(word) == word \in {"2025", "1500"}

MonthOfWord_caseSensitive(word) ==
    CASE word = "May" -> 5
      [] OTHER -> 0

\* The month the word names, as /\b(January|...|December)\b/i matches it, or 0.
MonthOfWord(word) ==
    CASE word = "May" -> 5
      [] word = "february" -> 2
      [] OTHER -> 0

\* word.toLowerCase()
LowerCase(word) == IF word = "This" THEN "this" ELSE word

\* lowerQuery.includes(first + ' ' + second)
IncludesPhrase(query, first, second) ==
    \E i \in 1..(Len(query) - 1) :
        LowerCase(query[i]) = first /\ LowerCase(query[i + 1]) = second

\* The queries of at most n words.
RECURSIVE TextsUpToWords(_)
TextsUpToWords(n) ==
    IF n = 0
    THEN {<<>>}
    ELSE LET shorter == TextsUpToWords(n - 1)
         IN  shorter \cup {Append(q, w) : q \in {u \in shorter : Len(u) = n - 1}, w \in QueryWords}

NoResult == [found |-> FALSE, year |-> 0, month |-> 0, day |-> 1, dayCertain |-> FALSE, hour |-> 12]

\* The period of a whole month: `${year}-${month}-01` to the month's last
\* day, new Date(year, month, 0).getDate().
WholeMonth(year, month, tz) ==
    [start |-> [y |-> year, m |-> month, d |-> 1],
     end |-> [y |-> year, m |-> month, d |-> LocalDate(DateFromLocal(year, month, 0, tz), tz).d]]

extractPeriodFromQuery(query, now, tz, parsed) ==
    LET currentYear == LocalDate(now, tz).y
        hasYear == \E i \in 1..Len(query) : HasFourDigits(query[i])
        monthWords == {i \in 1..Len(query) : MonthOfWord(query[i]) # 0}
        monthName == query[CHOOSE i \in monthWords : \A j \in monthWords : i <= j]
        \* new Date(`${monthName} 1, ${currentYear}`).getMonth() + 1
        monthIndex == LocalDate(DateFromLocal(currentYear, MonthOfWord(monthName) - 1, 1, tz), tz).m
    IN  IF ~hasYear /\ monthWords # {}
        THEN WholeMonth(currentYear, monthIndex, tz)
        ELSE IF parsed.found /\ parsed.year # 0 /\ parsed.month # 0 /\ ~parsed.dayCertain
        THEN WholeMonth(parsed.year, parsed.month, tz)
        ELSE IF parsed.found /\ parsed.dayCertain
        THEN LET d == Instant(parsed.year, parsed.month, parsed.day, parsed.hour) - tz
                 iso == ISODate(d)
             IN  [start |-> iso, end |-> iso]
        ELSE IF IncludesPhrase(query, "this", "month") \/ IncludesPhrase(query, "current", "month")
        THEN getMonthRange(0, now, tz)
        ELSE IF IncludesPhrase(query, "last", "month") \/ IncludesPhrase(query, "previous", "month")
        THEN getMonthRange(-1, now, tz)
        ELSE getMonthRange(0, now, tz)

----------------------------------------------------------------------------
(* One run of awsCostFetcher.execute.                                      *)
(*                                                                         *)
(* The run starts with the caller's context, awaits the two fetches in     *)
(* turn and ends by returning.  Whatever is thrown inside the try block is *)
(* caught in the same step, which then returns the catch clause's result.  *)

Queries == TextsUpToWords(MaxQueryWords)

\* The instants at which a run starts (new Date()).
Nows ==
    {Instant(2025, 8, 15, 12), Instant(2024, 2, 29, 20), Instant(2024, 12, 31, 23),
     Instant(2025, 3, 1, 2)}

TzOffsets == {-5, 0, 9}

\* The answers of chrono.parse: none, a year and a month (either may be
\* null) without a certain day, or a full date at an hour of the day.
ParserOutcomes ==
    {NoResult}
        \cup [found : {TRUE}, year : {0, 2024, 2025}, month : {0, 2, 12}, day : {1},
              dayCertain : {FALSE}, hour : {12}]
        \cup [found : {TRUE}, year : {2024, 2025}, month : {2, 12}, day : {1, 28},
              dayCertain : {TRUE}, hour : {0, 12, 23}]

\* The reports Cost Explorer answers a command with (ResultsByTime[0]).
ExecReports ==
    {[Total |-> <<2>>, Unit |-> Absent, Groups |-> <<[Key |-> "A", Amount |-> <<2>>]>>],
     [Total |-> <<0>>, Unit |-> Absent, Groups |-> <<[Key |-> "A", Amount |-> <<1>>]>>],
     [Total |-> <<>>, Unit |-> Absent, Groups |-> <<>>],
     [Total |-> <<1>>, Unit |-> "N/A", Groups |-> <<>>]}

\* The values client.send rejects with.
FetchErrors ==
    {[kind |-> "null"], [kind |-> "object"]}
        \cup {[kind |-> "Error", name |-> n, message |-> m] :
                 n \in {"Error", "ValidationException"}, m \in TextsUpTo(1)}
        \cup {[kind |-> "string", text |-> <<f>>] : f \in {"AccessDenied", "connect ETIMEDOUT"}}

\* query.match(...) on an undefined userQuery.
UndefinedQueryError ==
    [kind |-> "Error", name |-> "TypeError",
     message |-> <<"Cannot read properties of undefined (reading 'match')">>]

CatchClause_successFlag(error) ==
    LET err == ErrorOf(error)
    IN  IF err.name = "ValidationException"
        THEN [success |-> TRUE,
              error |-> <<"AWS Cost Explorer data limitation: ">> \o err.message]
        ELSE [success |-> TRUE, error |-> handleAWSError(err).error]

CatchClause_rawMessage(error) ==
    LET err == ErrorOf(error)
    IN  IF err.name = "ValidationException"
        THEN [success |-> FALSE,
              error |-> <<"AWS Cost Explorer data limitation: ">> \o err.message]
        ELSE [success |-> FALSE, error |-> err.message]

\* The catch clause of execute: the value it returns for a caught value.
CatchClause(error) ==
    LET err == ErrorOf(error)
    IN  IF err.name = "ValidationException"
        THEN [success |-> FALSE,
              error |-> <<"AWS Cost Explorer data limitation: ">> \o err.message]
        ELSE [success |-> FALSE, error |-> handleAWSError(err).error]

Throw_continues(step, error) ==
    /\ caught' = <<[by |-> step, error |-> error]>>
    /\ result' = <<CatchClause(error)>>
    /\ pc' = pc

\* A step of the try block throws: the catch clause returns.
Throw(step, error) ==
    /\ caught' = <<[by |-> step, error |-> error]>>
    /\ result' = <<CatchClause(error)>>
    /\ pc' = "done"

\* execute is invoked with a query: the period is resolved and the command
\* for the current period is sent.
Start ==
    /\ pc = "start"
    /\ \E query \in Queries, now \in Nows, parsed \in ParserOutcomes :
           /\ query = <<>> => ~parsed.found
           /\ extractedPeriod' = <<extractPeriodFromQuery(query, now, tzOffset, parsed)>>
    /\ fetches' = Append(fetches, extractedPeriod'[1])
    /\ pc' = "awaitCurrent"
    /\ UNCHANGED <<call, tzOffset, currentPeriodData, previousPeriodData, caught, result>>

\* execute is invoked with a context that has no userQuery.
StartUndefinedQuery ==
    /\ pc = "start"
    /\ Throw("extractPeriodFromQuery", UndefinedQueryError)
    /\ UNCHANGED <<call, tzOffset, extractedPeriod, currentPeriodData, previousPeriodData,
                   fetches>>

\* The command for the current period is answered: fetchPreviousPeriodData
\* sends the command for the previous period.
CurrentResolves ==
    /\ pc = "awaitCurrent"
    /\ \E response \in ExecReports : currentPeriodData' = <<response>>
    /\ fetches' = Append(fetches, PreviousPeriodOf(extractedPeriod[1].start,
                                                   extractedPeriod[1].end, tzOffset))
    /\ pc' = "awaitPrevious"
    /\ UNCHANGED <<call, tzOffset, extractedPeriod, previousPeriodData, caught, result>>

CurrentRejects ==
    /\ pc = "awaitCurrent"
    /\ \E error \in FetchErrors : Throw("fetchCostData", error)
    /\ UNCHANGED <<call, tzOffset, extractedPeriod, currentPeriodData, previousPeriodData,
                   fetches>>

\* The command for the previous period is answered: the data is analysed
\* and returned, or the analysis throws.
PreviousResolves ==
    /\ pc = "awaitPrevious"
    /\ \E response \in ExecReports :
           LET processed == processAndAnalyzeCostData(currentPeriodData[1], response,
                                                      extractedPeriod[1])
           IN  /\ previousPeriodData' = <<response>>
               /\ IF processed.status = "return"
                  THEN /\ result' = <<[success |-> TRUE, data |-> processed.value]>>
                       /\ pc' = "done"
                       /\ UNCHANGED caught
                  ELSE Throw("processAndAnalyzeCostData", processed.error)
    /\ UNCHANGED <<call, tzOffset, extractedPeriod, currentPeriodData, fetches>>

PreviousRejects ==
    /\ pc = "awaitPrevious"
    /\ \E error \in FetchErrors : Throw("fetchPreviousPeriodData", error)
    /\ UNCHANGED <<call, tzOffset, extractedPeriod, currentPeriodData, previousPeriodData,
                   fetches>>

Init ==
    /\ call = NoCall
    /\ tzOffset \in TzOffsets
    /\ pc = "start"
    /\ extractedPeriod = <<>>
    /\ currentPeriodData = <<>>
    /\ previousPeriodData = <<>>
    /\ fetches = <<>>
    /\ caught = <<>>
    /\ result = <<>>

Next ==
    \/ Start
    \/ StartUndefinedQuery
    \/ CurrentResolves
    \/ CurrentRejects
    \/ PreviousResolves
    \/ PreviousRejects

Spec == Init /\ [][Next]_vars

----------------------------------------------------------------------------
(* Claims about execute. *)

\* The days from date a to date b.
DaysBetween(a, b) == DaysFromCivil(b.y, b.m, b.d) - DaysFromCivil(a.y, a.m, a.d)

\* The date n days before the date.
DaysBefore(date, n) == CivilFromDays(DaysFromCivil(date.y, date.m, date.d) - n)

\* C6: for a current period with start <= end, the previous period that is
\* fetched ends the day before the current period starts and covers as many
\* inclusive calendar days as the current period:
\* prevEnd = start - 1 day, prevStart = prevEnd - (daysInclusive(start, end) - 1).
C6_PreviousPeriodMirrors ==
    (Len(fetches) >= 2 /\ DaysBetween(fetches[1].start, fetches[1].end) >= 0)
        => LET daysInclusive == DaysBetween(fetches[1].start, fetches[1].end) + 1
           IN  /\ fetches[2].end = DaysBefore(fetches[1].start, 1)
               /\ fetches[2].start = DaysBefore(fetches[2].end, daysInclusive - 1)

\* The analysis of the two answers of a run that has received both.
AnalysisOfRun ==
    processAndAnalyzeCostData(currentPeriodData[1], previousPeriodData[1], extractedPeriod[1])

\* The period was resolved, both fetches were answered and the analysis returned.
AllSucceeded ==
    /\ extractedPeriod # <<>>
    /\ currentPeriodData # <<>>
    /\ previousPeriodData # <<>>
    /\ AnalysisOfRun.status = "return"

ReturnsAResult ==
    /\ pc # "done" => (result = <<>> /\ caught = <<>>)
    /\ pc = "done"
        => /\ Len(result) = 1
           /\ IF AllSucceeded
              THEN /\ result[1] = [success |-> TRUE, data |-> AnalysisOfRun.value]
                   /\ caught = <<>>
              ELSE /\ DOMAIN result[1] = {"success", "error"}
                   /\ result[1].success = FALSE
                   /\ caught # <<>>

\* A run that has not returned waits for a step that can be taken: what the
\* step reads has been set.
ReadyForNextStep ==
    /\ pc \in {"start", "awaitCurrent", "awaitPrevious", "done"}
    /\ pc = "awaitCurrent" => (extractedPeriod # <<>> /\ Len(fetches) = 1)
    /\ pc = "awaitPrevious"
        => (extractedPeriod # <<>> /\ currentPeriodData # <<>> /\ Len(fetches) = 2)

\* The position of a run, counted in steps of its longest path.
StepsDone ==
    CASE pc = "start" -> 0
      [] pc = "awaitCurrent" -> 1
      [] pc = "awaitPrevious" -> 2
      [] pc = "done" -> 3

\* C9: every run of execute ends by returning a result: {success: true,
\* data} when the period resolution, both fetches and the analysis succeed,
\* {success: false, error} when one of them throws; what is thrown is
\* answered by the step that threw it and never leaves execute.  A run that
\* has not returned waits for a step it can take, and every step brings it
\* nearer to its return.
C9_AlwaysReturnsAResult ==
    /\ []ReturnsAResult
    /\ []ReadyForNextStep
    /\ [][StepsDone' > StepsDone]_vars

\* A run in which the analysis threw, and execute returned a failure.
C9_Witness ==
    /\ pc = "done"
    /\ caught # <<>>
    /\ caught[1].by = "processAndAnalyzeCostData"
    /\ currentPeriodData # <<>>
    /\ previousPeriodData # <<>>
    /\ result[1].success = FALSE

\* A run that ended because a fetch failed.
FetchFailed ==
    /\ pc = "done"
    /\ caught # <<>>
    /\ caught[1].by \in {"fetchCostData", "fetchPreviousPeriodData"}

\* C10 as stated: when a fetch fails, the result returned to the caller
\* carries the error class, the class's suggestions and its retryable flag,
\* as handleAWSError computes them for the failure.
C10_StructuredFailure ==
    FetchFailed
        => LET classified == handleAWSError(caught[1].error)
           IN  /\ {"errorType", "suggestions", "retryable"} \subseteq DOMAIN result[1]
               /\ result[1].errorType = classified.errorType
               /\ result[1].suggestions = classified.suggestions
               /\ result[1].retryable = classified.retryable

\* C10, amended: when a fetch fails, the result returned to the caller has
\* exactly the fields success (false) and error.  The error is the message
\* of the class handleAWSError gives the failure; for a failure whose name
\* is ValidationException it is instead the failure's own message after
\* "AWS Cost Explorer data limitation: ".
C10_FailureMessageOnly ==
    FetchFailed
        => LET err == ErrorOf(caught[1].error)
           IN  /\ DOMAIN result[1] = {"success", "error"}
               /\ result[1].success = FALSE
               /\ result[1].error =
                      IF err.name = "ValidationException"
                      THEN <<"AWS Cost Explorer data limitation: ">> \o err.message
                      ELSE handleAWSError(err).error

\* The current fetch failed with an access-denied error: the caller gets
\* the authorization class's message and nothing else.
C10_Witness ==
    /\ FetchFailed
    /\ caught[1].by = "fetchCostData"
    /\ caught[1].error.kind = "Error"
    /\ caught[1].error.name = "Error"
    /\ caught[1].error.message = <<"AccessDenied">>
    /\ result[1] = [success |-> FALSE,
                    error |-> <<"Insufficient access permissions to AWS Cost Explorer.">>]

----------------------------------------------------------------------------
(* Direct calls of extractPeriodFromQuery.                                 *)
(*                                                                         *)
(* A call resolves a query at an instant, given the parser's answer, in    *)
(* the process's time zone.  Beside it the same query is resolved at the   *)
(* same instant with the same parser answer in a process whose time zone   *)
(* is twinTz (the same zone, or another one).                              *)

\* Another time zone than tz.
OtherZone(tz) ==
    CASE tz = -5 -> 0
      [] tz = 0 -> 9
      [] OTHER -> -5

SecondRun_monthLater(c) ==
    extractPeriodFromQuery(c.query, c.now + 31 * HoursPerDay, c.twinTz, c.parsed)

\* The second run: the same query, instant and parser answer, in the zone twinTz.
SecondRun(c) == extractPeriodFromQuery(c.query, c.now, c.twinTz, c.parsed)

CallExtractPeriodFromQuery ==
    /\ call.fn = "extractPeriodFromQuery"
    /\ ~call.returned
    /\ call' = [call EXCEPT
                   !.ret = extractPeriodFromQuery(call.query, call.now, tzOffset, call.parsed),
                   !.twinRet = SecondRun(call),
                   !.returned = TRUE]
    /\ UNCHANGED execVars

InitPeriod ==
    /\ tzOffset \in TzOffsets
    /\ \E query \in Queries, now \in Nows, parsed \in ParserOutcomes,
          twinTz \in {tzOffset, OtherZone(tzOffset)} :
           /\ query = <<>> => ~parsed.found
           /\ call = [fn |-> "extractPeriodFromQuery", query |-> query, now |-> now,
                      parsed |-> parsed, twinTz |-> twinTz, ret |-> Pending,
                      twinRet |-> Pending, returned |-> FALSE]
    /\ pc = "idle"
    /\ extractedPeriod = <<>>
    /\ currentPeriodData = <<>>
    /\ previousPeriodData = <<>>
    /\ fetches = <<>>
    /\ caught = <<>>
    /\ result = <<>>

NextPeriod == CallExtractPeriodFromQuery

SpecPeriod == InitPeriod /\ [][NextPeriod]_vars

----------------------------------------------------------------------------
(* Claims about extractPeriodFromQuery. *)

IsPeriodCall == call.fn = "extractPeriodFromQuery" /\ call.returned

\* The words that are a standalone 4-digit token.
FourDigitTokens == {"2025", "1500"}

\* The month a word is the English name of, in any letter case, or 0.
MonthNamed(word) ==
    IF word \in {"May", "may", "MAY"} THEN 5
    ELSE IF word \in {"February", "february", "FEBRUARY"} THEN 2
    ELSE 0

\* The query has a standalone 4-digit token.
QueryHasYear == \E i \in 1..Len(call.query) : call.query[i] \in FourDigitTokens

\* The months the words of the query name, in the order of the words.
QueryMonths == SelectSeq([i \in 1..Len(call.query) |-> MonthNamed(call.query[i])],
                         LAMBDA m : m # 0)

\* The month-only shortcut applies: no 4-digit token, and a month name.
ShortcutApplies == ~QueryHasYear /\ QueryMonths # <<>>

\* The parser's answer names a whole month or a day.
ParsedWholeMonth ==
    call.parsed.found /\ call.parsed.year # 0 /\ call.parsed.month # 0 /\ ~call.parsed.dayCertain

ParsedDay == call.parsed.found /\ call.parsed.dayCertain

IsLeapYear(y) == (y % 4 = 0 /\ y % 100 # 0) \/ y % 400 = 0

\* The last calendar day of month m of year y.
DaysInMonth(y, m) ==
    CASE m = 2 -> IF IsLeapYear(y) THEN 29 ELSE 28
      [] m \in {4, 6, 9, 11} -> 30
      [] OTHER -> 31

\* The period from the first to the last calendar day of month m of year y.
CalendarMonth(y, m) ==
    [start |-> [y |-> y, m |-> m, d |-> 1], end |-> [y |-> y, m |-> m, d |-> DaysInMonth(y, m)]]

\* A period: two calendar dates.
IsCalendarDate(date) ==
    /\ DOMAIN date = {"y", "m", "d"}
    /\ date.m \in 1..12
    /\ date.d \in 1..DaysInMonth(date.y, date.m)

\* C11: for every query, instant and parser answer, extractPeriodFromQuery
\* returns one period {start, end} of two calendar dates with start <= end.
C11_AlwaysAPeriod ==
    IsPeriodCall
        => /\ DOMAIN call.ret = {"start", "end"}
           /\ IsCalendarDate(call.ret.start)
           /\ IsCalendarDate(call.ret.end)
           /\ DaysBetween(call.ret.start, call.ret.end) >= 0

\* The default is taken at the last hour of a year, east of UTC: a period
\* is returned, and its start is not after its end.
C11_Witness ==
    /\ IsPeriodCall
    /\ call.query = <<"costs">>
    /\ ~call.parsed.found
    /\ call.now = Instant(2024, 12, 31, 23)
    /\ tzOffset = 9
    /\ DaysBetween(call.ret.start, call.ret.end) > 0

\* C12: for a query without a standalone 4-digit token and with a month
\* name (in any letter case), the result is the first to the last calendar
\* day of the first month named, in the year of the instant (the local
\* calendar's), whatever the parser would answer.
C12_MonthOnlyShortcut ==
    (IsPeriodCall /\ ShortcutApplies)
        => call.ret = CalendarMonth(LocalDate(call.now, tzOffset).y, QueryMonths[1])

\* "february May", resolved in the leap year 2024: February 1 to 29,
\* although the parser answers December 2025.
C12_Witness ==
    /\ IsPeriodCall
    /\ call.query = <<"february", "May">>
    /\ call.now = Instant(2024, 2, 29, 20)
    /\ tzOffset = 0
    /\ call.parsed.found
    /\ call.parsed.year = 2025
    /\ call.parsed.month = 12
    /\ call.ret = [start |-> [y |-> 2024, m |-> 2, d |-> 1],
                   end |-> [y |-> 2024, m |-> 2, d |-> 29]]

\* C13: for a query with a standalone 4-digit token, next to a month name
\* or not, the month-only shortcut is never taken: the parser's whole month
\* or day decides the result, and the fallback heuristics and the default
\* decide it only when the parser gives neither.
C13_YearSkipsShortcut ==
    (IsPeriodCall /\ QueryHasYear)
        => IF ParsedWholeMonth
           THEN call.ret = CalendarMonth(call.parsed.year, call.parsed.month)
           ELSE IF ParsedDay
           THEN /\ call.ret.start = call.ret.end
                /\ DaysBetween(call.ret.start,
                               [y |-> call.parsed.year, m |-> call.parsed.month,
                                d |-> call.parsed.day]) \in {-1, 0, 1}
           ELSE call.ret \in {getMonthRange(0, call.now, tzOffset),
                              getMonthRange(-1, call.now, tzOffset)}

\* "May 1500" in August 2025, the parser finding nothing: the default, the
\* month of August, and not May.
C13_Witness ==
    /\ IsPeriodCall
    /\ call.query = <<"May", "1500">>
    /\ ~call.parsed.found
    /\ call.now = Instant(2025, 8, 15, 12)
    /\ tzOffset = 0
    /\ call.ret = [start |-> [y |-> 2025, m |-> 8, d |-> 1],
                   end |-> [y |-> 2025, m |-> 8, d |-> 31]]

LocalMonth == CalendarMonth(LocalDate(call.now, tzOffset).y, LocalDate(call.now, tzOffset).m)

LocalPriorMonth ==
    LET today == LocalDate(call.now, tzOffset)
    IN  IF today.m = 1 THEN CalendarMonth(today.y - 1, 12) ELSE CalendarMonth(today.y, today.m - 1)

\* lowerQuery.includes(phrase), for a phrase of two words, in any letter case.
QueryHasPhrase(first, second) ==
    \E i \in 1..(Len(call.query) - 1) :
        /\ call.query[i] \in first
        /\ call.query[i + 1] \in second

\* C20: when the month-only shortcut does not apply and the parser names
\* neither a whole month nor a day, the result is the current calendar month
\* if the query contains "this month" or "current month", else the prior
\* calendar month if it contains "last month" or "previous month", else the
\* current calendar month; each from the first to the last calendar day of
\* the month in the local calendar, at every instant and in every zone.
C20_FallbackMonths ==
    (IsPeriodCall /\ ~ShortcutApplies /\ ~ParsedWholeMonth /\ ~ParsedDay)
        => call.ret =
               IF QueryHasPhrase({"this", "This", "current"}, {"month"})
               THEN LocalMonth
               ELSE IF QueryHasPhrase({"last", "previous"}, {"month"})
               THEN LocalPriorMonth
               ELSE LocalMonth

----------------------------------------------------------------------------
(* Further claims about processAndAnalyzeCostData. *)

\* C15 as stated: monthOverMonth is calculatePercentageChange(totalCost,
\* previousTotalCost) for every pair of normalized totals, a negative
\* previous total included, and a change of 100 has the trend 'increasing'.
C15_MonthOverMonthIsTheRule ==
    Analyzed =>
        /\ call.ret.value.trends.monthOverMonth =
               calculatePercentageChange(call.ret.value.totalCost,
                                         call.ret.locals.previousTotalCost)
        /\ call.ret.value.trends.monthOverMonth = 100 * PctUnit
               => call.ret.value.trends.trend = "increasing"

\* C15, amended: monthOverMonth is calculatePercentageChange(totalCost,
\* previousTotalCost) when the previous total is positive; when it is zero
\* or negative, monthOverMonth is 100 for a positive total and 0 otherwise
\* (for a previous total of zero this is what the rule gives).  The trend is
\* that of monthOverMonth under the default threshold: previous total 0 and
\* a positive current total give 100 and 'increasing'.
C15_MonthOverMonthGuarded ==
    Analyzed =>
        LET totalCost == call.ret.value.totalCost
            previousTotalCost == call.ret.locals.previousTotalCost
            monthOverMonth == call.ret.value.trends.monthOverMonth
        IN  /\ previousTotalCost > 0
                   => monthOverMonth = calculatePercentageChange(totalCost, previousTotalCost)
            /\ previousTotalCost = 0
                   => monthOverMonth = calculatePercentageChange(totalCost, previousTotalCost)
            /\ previousTotalCost <= 0
                   => monthOverMonth = IF totalCost > 0 THEN 100 * PctUnit ELSE 0
            /\ call.ret.value.trends.trend =
                   IF monthOverMonth >= 5 * PctUnit THEN "increasing"
                   ELSE IF monthOverMonth <= -5 * PctUnit THEN "decreasing"
                   ELSE "stable"

\* A negative previous total and a positive current one: 100, increasing.
C15_Witness ==
    /\ Analyzed
    /\ call.ret.locals.previousTotalCost < 0
    /\ call.ret.value.totalCost = 2
    /\ call.ret.value.trends.monthOverMonth = 100 * PctUnit
    /\ call.ret.value.trends.trend = "increasing"

\* The one-to-one maps of 1..n onto itself.
Bijections(n) == {f \in [1..n -> 1..n] : \A i, j \in 1..n : i # j => f[i] # f[j]}

\* The name under which a group of the current report is reported.
NameOfGroup(group) == IF group.Key \in {Absent, ""} THEN "Unknown" ELSE group.Key

\* The amounts of the groups of the previous report whose key is the name.
PreviousAmountsOf(name) ==
    {ParseAmount(call.previousData.Groups[i].Amount) :
        i \in {j \in 1..Len(call.previousData.Groups) : call.previousData.Groups[j].Key = name}}

\* The services are the groups of the current report, one entry each, the
\* entry's change being one that Changes allows for the group.
ReportsCurrentGroups(Changes(_)) ==
    LET groups == call.currentData.Groups
        services == call.ret.value.services
    IN  /\ Len(services) = Len(groups)
        /\ \E f \in Bijections(Len(groups)) :
               \A i \in 1..Len(groups) :
                   /\ services[f[i]].name = NameOfGroup(groups[i])
                   /\ services[f[i]].cost = ParseAmount(groups[i].Amount)
                   /\ services[f[i]].previousPeriodChange \in Changes(groups[i])

\* The change by the percentage-change rule alone.
RuleChanges(group) ==
    LET previous == PreviousAmountsOf(NameOfGroup(group))
    IN  {calculatePercentageChange(ParseAmount(group.Amount), a) :
            a \in IF previous = {} THEN {0} ELSE previous}

\* The change by the rule for a positive previous amount, and 100 or 0 (for
\* a positive amount or not) for a previous amount that is zero, negative or
\* missing.
GuardedChanges(group) ==
    LET previous == PreviousAmountsOf(NameOfGroup(group))
        amount == ParseAmount(group.Amount)
    IN  {IF a > 0 THEN calculatePercentageChange(amount, a)
         ELSE IF amount > 0 THEN 100 * PctUnit ELSE 0 :
            a \in IF previous = {} THEN {0} ELSE previous}

\* C16 as stated: the result reports exactly the groups of the current
\* report; an entry's previousPeriodChange is the percentage-change rule
\* applied to its amount and the amount of the previous group of exactly the
\* same name, or 0 when there is none; a name that only the previous report
\* has is not in the result.
C16_CurrentGroupsByTheRule == Analyzed => ReportsCurrentGroups(RuleChanges)

\* C16, amended: as stated, but the rule is applied only for a positive
\* previous amount; for a previous amount that is zero, negative or missing
\* the change is 100 when the group's amount is positive and 0 otherwise.
C16_CurrentGroupsGuarded == Analyzed => ReportsCurrentGroups(GuardedChanges)

\* Group A fell from 2 to 1: one entry, A, with a change of -50.
C16_Witness ==
    /\ Analyzed
    /\ call.currentData.Groups = <<[Key |-> "A", Amount |-> <<1>>]>>
    /\ call.previousData.Groups = <<[Key |-> "A", Amount |-> <<2>>]>>
    /\ Len(call.ret.value.services) = 1
    /\ call.ret.value.services[1].name = "A"
    /\ call.ret.value.services[1].previousPeriodChange = -50 * PctUnit

\* C17: the services are in descending order of cost, and entries of equal
\* cost are in the order in which their groups stand in the current report.
C17_SortedAndStable ==
    Analyzed =>
        LET groups == call.currentData.Groups
            services == call.ret.value.services
        IN  /\ Len(services) = Len(groups)
            /\ \E f \in Bijections(Len(groups)) :
                   /\ \A p \in 1..Len(services) :
                          /\ services[p].name = NameOfGroup(groups[f[p]])
                          /\ services[p].cost = ParseAmount(groups[f[p]].Amount)
                   /\ \A p, q \in 1..Len(services) :
                          p < q => /\ services[p].cost >= services[q].cost
                                   /\ services[p].cost = services[q].cost => f[p] < f[q]

\* B and A with equal costs, B first in the report: B stays first.
C17_Witness ==
    /\ Analyzed
    /\ call.currentData.Groups = <<[Key |-> "B", Amount |-> <<1>>], [Key |-> "A", Amount |-> <<1>>]>>
    /\ Len(call.ret.value.services) = 2
    /\ call.ret.value.services[1].name = "B"
    /\ call.ret.value.services[2].name = "A"

\* C18: no two entries of services have the same name, whatever the
\* current report: two groups of one key, or two groups without a key.
C18_UniqueNames ==
    Analyzed =>
        \A i, j \in 1..Len(call.ret.value.services) :
            i # j => call.ret.value.services[i].name # call.ret.value.services[j].name

----------------------------------------------------------------------------
(* Direct calls of generateCostSummary. *)

\* The data of a direct call: a month-over-month change that is absent or a
\* number, with any trend, and no service or one.
SummaryData ==
    [period : {AnalyzedPeriod},
     totalCost : 0..MaxAmount,
     currency : {"USD", "EUR"},
     services : {<<>>,
                 <<[name |-> "A", cost |-> 1, percentage |-> Frac(100, 1),
                    previousPeriodChange |-> 0]>>},
     trends : [monthOverMonth : {<<>>} \cup {<<n>> : n \in TrendChanges},
               trend : {"increasing", "decreasing", "stable"}]]

CallGenerateCostSummary ==
    /\ call.fn = "generateCostSummary"
    /\ ~call.returned
    /\ call' = [call EXCEPT !.ret = generateCostSummary(call.data), !.returned = TRUE]
    /\ UNCHANGED execVars

InitSummary ==
    /\ \E data \in SummaryData :
           call = [fn |-> "generateCostSummary", data |-> data, ret |-> Pending,
                   returned |-> FALSE]
    /\ ExecIdle

NextSummary == CallGenerateCostSummary

SpecSummary == InitSummary /\ [][NextSummary]_vars

\* C19: generateCostSummary returns the short form exactly when the
\* month-over-month change is absent; for every change that is a number,
\* 0 included, it returns the long form, with the change (signed '+' when
\* positive), the directional word and the top services.
C19_ShortFormOnlyWithoutChange ==
    (call.fn = "generateCostSummary" /\ call.returned)
        => LET monthOverMonth == call.data.trends.monthOverMonth
           IN  /\ call.ret.form = "short" <=> monthOverMonth = <<>>
               /\ monthOverMonth # <<>>
                      => /\ call.ret.form = "long"
                         /\ DOMAIN call.ret
                                = {"form", "periodStart", "totalCost", "currency", "sign",
                                   "percentageChange", "trendText", "topServices"}

----------------------------------------------------------------------------
(* Further claims about execute. *)

\* C21: every period sent to Cost Explorer in a run, the current one and
\* the previous one derived from it, has start <= end; for a current period
\* of a single day the previous period is the single day before it.
C21_FetchedPeriodsOrdered ==
    /\ \A i \in 1..Len(fetches) : DaysBetween(fetches[i].start, fetches[i].end) >= 0
    /\ (Len(fetches) >= 2 /\ fetches[1].start = fetches[1].end)
           => /\ fetches[2].start = DaysBefore(fetches[1].start, 1)
              /\ fetches[2].end = DaysBefore(fetches[1].start, 1)

\* C22: the analysis starts only when the fetch of the current period and
\* the fetch of the previous period have both been answered; a success
\* result comes after exactly two fetches, the first for the resolved period
\* and the second for the period before it.
C22_AnalysisAfterBothFetches ==
    /\ (caught # <<>> /\ caught[1].by = "processAndAnalyzeCostData")
           => (currentPeriodData # <<>> /\ previousPeriodData # <<>>)
    /\ (result # <<>> /\ result[1].success)
           => /\ currentPeriodData # <<>>
              /\ previousPeriodData # <<>>
              /\ Len(fetches) = 2
              /\ fetches[1] = extractedPeriod[1]
              /\ fetches[2].end = DaysBefore(extractedPeriod[1].start, 1)
              /\ result[1].data.period = extractedPeriod[1]

\* A run that returned the analysis of two answers.
C22_Witness ==
    /\ pc = "done"
    /\ result # <<>>
    /\ result[1].success
    /\ Len(fetches) = 2
    /\ currentPeriodData = <<[Total |-> <<2>>, Unit |-> Absent,
                              Groups |-> <<[Key |-> "A", Amount |-> <<2>>]>>]>>
    /\ previousPeriodData # <<>>

\* C29: in a run the fetch of the current period is sent first, and the
\* fetch of the previous period is sent only when the first has been
\* answered; when the first fails, the second is never sent and the run ends
\* with a failure result.
C29_CurrentBeforePrevious ==
    /\ Len(fetches) <= 2
    /\ Len(fetches) >= 1 => fetches[1] = extractedPeriod[1]
    /\ pc = "awaitCurrent" => (Len(fetches) = 1 /\ currentPeriodData = <<>>)
    /\ Len(fetches) = 2 => currentPeriodData # <<>>
    /\ (caught # <<>> /\ caught[1].by = "fetchCostData")
           => /\ Len(fetches) = 1
              /\ currentPeriodData = <<>>
              /\ previousPeriodData = <<>>
              /\ pc = "done"
              /\ result # <<>>
              /\ result[1].success = FALSE

\* The fetch of the current period was throttled: one fetch, and a failure.
C29_Witness ==
    /\ pc = "done"
    /\ caught # <<>>
    /\ caught[1].by = "fetchCostData"
    /\ caught[1].error = [kind |-> "Error", name |-> "Error", message |-> <<"Throttling">>]
    /\ Len(fetches) = 1
    /\ result[1].success = FALSE

----------------------------------------------------------------------------
(* Further claims about extractPeriodFromQuery. *)

\* The date the parser's answer names.
ParsedDate == [y |-> call.parsed.year, m |-> call.parsed.month, d |-> call.parsed.day]

\* C23: when the parser is consulted and returns a result, the period is
\* the single parsed day (start = end = that day) if the day is certain, the
\* whole month of the parsed year and month, first to last day, if both are
\* present and the day is not certain, and the outcome of the fallback
\* heuristics only when neither is the case.
C23_ParserResultDecides ==
    (IsPeriodCall /\ ~ShortcutApplies /\ call.parsed.found)
        => IF ParsedDay
           THEN call.ret = [start |-> ParsedDate, end |-> ParsedDate]
           ELSE IF ParsedWholeMonth
           THEN call.ret = CalendarMonth(call.parsed.year, call.parsed.month)
           ELSE call.ret \in {getMonthRange(0, call.now, tzOffset),
                              getMonthRange(-1, call.now, tzOffset)}

----------------------------------------------------------------------------
(* utils/cost-calculations.ts: getTopServices and                          *)
(* generateCostOptimizationSuggestions, called directly.                   *)
(*                                                                         *)
(* Array.prototype.sort sorts the array it is called on: a call is given   *)
(* an array, and the call record holds its contents at the call (given)    *)
(* and at the return (services).                                           *)

\* The longest services array of a direct call.
MaxServices == 6

\* The services generateCostOptimizationSuggestions looks at.
HintTopN == 5

\* The default threshold of generateCostOptimizationSuggestions.
DefaultHintThreshold == 100

\* The cost a service of another name must exceed for the generic hint.
GenericHintFloor == 500

EC2 == "Amazon Elastic Compute Cloud - Compute"

S3 == "Amazon Simple Storage Service"

RDS == "Amazon Relational Database Service"

\* The contents of the array after services.sort((a, b) => b.cost - a.cost).
SortedInPlace(services) == SortByCost(services)

HintFor_genericFromThreshold(service, threshold) ==
    IF service.cost < threshold
    THEN <<>>
    ELSE CASE service.name = EC2 -> <<[advice |-> "EC2", name |-> service.name, cost |-> service.cost]>>
           [] service.name = S3 -> <<[advice |-> "S3", name |-> service.name, cost |-> service.cost]>>
           [] service.name = RDS -> <<[advice |-> "RDS", name |-> service.name, cost |-> service.cost]>>
           [] OTHER -> <<[advice |-> "review", name |-> service.name, cost |-> service.cost]>>

\* The body of the loop over topServices: no suggestion or one.  A
\* suggestion is held by its advice, the service's name and the cost it
\* quotes.
HintFor(service, threshold) ==
    IF service.cost < threshold
    THEN <<>>
    ELSE CASE service.name = EC2 -> <<[advice |-> "EC2", name |-> service.name, cost |-> service.cost]>>
           [] service.name = S3 -> <<[advice |-> "S3", name |-> service.name, cost |-> service.cost]>>
           [] service.name = RDS -> <<[advice |-> "RDS", name |-> service.name, cost |-> service.cost]>>
           [] OTHER -> IF service.cost > GenericHintFloor
                       THEN <<[advice |-> "review", name |-> service.name, cost |-> service.cost]>>
                       ELSE <<>>

RECURSIVE HintsFor(_, _)
HintsFor(topServices, threshold) ==
    IF topServices = <<>>
    THEN <<>>
    ELSE HintsFor(SubSeq(topServices, 1, Len(topServices) - 1), threshold)
             \o HintFor(topServices[Len(topServices)], threshold)

generateCostOptimizationSuggestions(services, threshold) ==
    HintsFor(getTopServices(services, HintTopN), threshold)

\* The entries of the arrays of direct calls.
ServiceEntries ==
    {[name |-> n, cost |-> c, percentage |-> Frac(0, 1), previousPeriodChange |-> 0] :
        <<n, c>> \in {<<EC2, 100>>, <<S3, 99>>, <<RDS, 501>>, <<"AWS Lambda", 500>>,
                      <<"AWS Lambda", 501>>}}

\* The arrays of exactly n entries.
RECURSIVE ServiceLists(_)
ServiceLists(n) ==
    IF n = 0 THEN {<<>>} ELSE {Append(l, e) : l \in ServiceLists(n - 1), e \in ServiceEntries}

CallGetTopServices ==
    /\ call.fn = "getTopServices"
    /\ ~call.returned
    /\ call' = [call EXCEPT !.ret = getTopServices(call.given, call.arg),
                            !.services = SortedInPlace(call.given),
                            !.returned = TRUE]
    /\ UNCHANGED execVars

CallGenerateCostOptimizationSuggestions ==
    /\ call.fn = "generateCostOptimizationSuggestions"
    /\ ~call.returned
    /\ call' = [call EXCEPT !.ret = generateCostOptimizationSuggestions(call.given, call.arg),
                            !.services = SortedInPlace(call.given),
                            !.returned = TRUE]
    /\ UNCHANGED execVars

\* A call of getTopServices with a number of services to take, or of
\* generateCostOptimizationSuggestions with a threshold.
InitServices ==
    /\ \E n \in 0..MaxServices :
           \E given \in ServiceLists(n) :
               \/ \E topN \in {1, 5, 10} :
                      call = [fn |-> "getTopServices", given |-> given, arg |-> topN,
                              services |-> given, ret |-> Pending, returned |-> FALSE]
               \/ \E threshold \in {DefaultHintThreshold, 501} :
                      call = [fn |-> "generateCostOptimizationSuggestions", given |-> given,
                              arg |-> threshold, services |-> given, ret |-> Pending,
                              returned |-> FALSE]
    /\ ExecIdle

NextServices == CallGetTopServices \/ CallGenerateCostOptimizationSuggestions

SpecServices == InitServices /\ [][NextServices]_vars

----------------------------------------------------------------------------
(* Claims about getTopServices and generateCostOptimizationSuggestions. *)

IsHintsCall == call.fn = "generateCostOptimizationSuggestions" /\ call.returned

\* The place of the i-th given service by descending cost, services of
\* equal cost in the order given.
PlaceByCost(i) ==
    1 + Cardinality({j \in 1..Len(call.given) :
                        \/ call.given[j].cost > call.given[i].cost
                        \/ (call.given[j].cost = call.given[i].cost /\ j < i)})

\* The given services that are due a suggestion: among the 5 of highest
\* cost, at or above the threshold, and of a known name or above 500.
DueAHint ==
    {i \in 1..Len(call.given) :
        /\ PlaceByCost(i) <= 5
        /\ call.given[i].cost >= call.arg
        /\ (call.given[i].name \in {EC2, S3, RDS} \/ call.given[i].cost > 500)}

\* The suggestion due to a service.
HintDue(service) ==
    [advice |-> IF service.name = "Amazon Elastic Compute Cloud - Compute" THEN "EC2"
                ELSE IF service.name = "Amazon Simple Storage Service" THEN "S3"
                ELSE IF service.name = "Amazon Relational Database Service" THEN "RDS"
                ELSE "review",
     name |-> service.name, cost |-> service.cost]

\* C24: generateCostOptimizationSuggestions returns one suggestion for each
\* service that is among the 5 of highest cost and costs at least the
\* threshold, if it has one of the three known names (the name's advice) or
\* costs more than 500 (the generic review hint), and no other suggestion;
\* the suggestions are in descending order of cost.
C24_HintsForTopServices ==
    IsHintsCall
        => /\ Len(call.ret) = Cardinality(DueAHint)
           /\ \A i \in DueAHint :
                  call.ret[1 + Cardinality({j \in DueAHint : PlaceByCost(j) < PlaceByCost(i)})]
                      = HintDue(call.given[i])
           /\ \A p, q \in 1..Len(call.ret) : p < q => call.ret[p].cost >= call.ret[q].cost

\* Six services under the default threshold: the sixth by cost (S3, 99) and
\* the Lambda of exactly 500 get no suggestion, the others one each.
C24_Witness ==
    /\ IsHintsCall
    /\ call.arg = 100
    /\ Len(call.given) = 6
    /\ call.given[1].name = S3
    /\ call.given[2].name = "AWS Lambda" /\ call.given[2].cost = 500
    /\ call.given[3].name = EC2
    /\ call.given[4].name = "AWS Lambda" /\ call.given[4].cost = 501
    /\ call.given[5].name = RDS
    /\ call.given[6].name = EC2
    /\ Len(call.ret) = 4
    /\ call.ret[1].advice = "review"
    /\ call.ret[2].advice = "RDS"
    /\ call.ret[3].advice = "EC2"
    /\ call.ret[4].advice = "EC2"

\* C27: getTopServices and generateCostOptimizationSuggestions (and through
\* getTopServices, generateCostSummary) leave the services array they are
\* given as it was: the same elements in the same order.
C27_ServicesUnchanged ==
    (call.fn \in {"getTopServices", "generateCostOptimizationSuggestions"} /\ call.returned)
        => call.services = call.given

----------------------------------------------------------------------------
(* Further claims about processAndAnalyzeCostData and handleAWSError. *)

\* The sum of the amounts of the groups of the current report.
RECURSIVE SumOfGroupAmounts(_)
SumOfGroupAmounts(n) ==
    IF n = 0
    THEN 0
    ELSE SumOfGroupAmounts(n - 1)
             + (IF call.currentData.Groups[n].Amount = <<>> THEN 0
                ELSE call.currentData.Groups[n].Amount[1])

\* C25: no group of the current report is dropped: there are as many
\* entries as groups, the groups without a key or with an empty key are
\* reported under the name "Unknown" with their amounts, and the reported
\* amounts add up to the sum of the group amounts.
C25_NoGroupDropped ==
    Analyzed =>
        LET groups == call.currentData.Groups
            services == call.ret.value.services
        IN  /\ Len(services) = Len(groups)
            /\ SumOfCosts(services) = SumOfGroupAmounts(Len(groups))
            /\ \A a \in -1..(MaxAmount + 1) :
                   Cardinality({i \in 1..Len(services) :
                                   services[i].name = "Unknown" /\ services[i].cost = a})
                       = Cardinality({j \in 1..Len(groups) :
                                         /\ groups[j].Key \in {Absent, ""}
                                         /\ groups[j].Amount = <<a>>})

\* A group without a key (2) and a group with an empty key (1): two
\* entries named Unknown, adding up to 3.
C25_Witness ==
    /\ Analyzed
    /\ call.currentData.Groups = <<[Key |-> "", Amount |-> <<1>>], [Key |-> Absent, Amount |-> <<2>>]>>
    /\ Len(call.ret.value.services) = 2
    /\ call.ret.value.services[1].name = "Unknown"
    /\ call.ret.value.services[1].cost = 2
    /\ call.ret.value.services[2].name = "Unknown"
    /\ SumOfCosts(call.ret.value.services) = 3

TestedMessage ==
    IF call.error.kind = "Error"
    THEN (IF call.error.message # <<>> THEN call.error.message ELSE <<call.error.name>>)
    ELSE IF call.error.kind = "string" THEN call.error.text
    ELSE <<"[object Object]">>

\* The message has one of the patterns as a substring.
MessageHas(patterns) ==
    \E i \in 1..Len(TestedMessage) :
        \E p \in patterns :
            \/ TestedMessage[i] = p
            \/ (TestedMessage[i] = "RequestLimitExceeded" /\ p = "LimitExceeded")
            \/ (TestedMessage[i] = "ThrottlingException" /\ p = "Throttling")

\* The class of the first pattern group that the message matches, in the
\* order AUTHENTICATION, AUTHORIZATION, THROTTLING, INVALID_PARAMETER,
\* SERVICE_UNAVAILABLE, QUOTA_EXCEEDED; UNKNOWN when it matches none.
FirstMatchingClass ==
    IF MessageHas({"The security token included in the request is invalid",
                   "SignatureDoesNotMatch", "InvalidAccessKeyId"})
    THEN "AUTHENTICATION"
    ELSE IF MessageHas({"UnauthorizedOperation", "AccessDenied", "Forbidden"})
    THEN "AUTHORIZATION"
    ELSE IF MessageHas({"Throttling", "RequestLimitExceeded", "TooManyRequests"})
    THEN "THROTTLING"
    ELSE IF MessageHas({"ValidationException", "InvalidParameter", "invalid date",
                        "You haven't enabled historical data", "historical data beyond"})
    THEN "INVALID_PARAMETER"
    ELSE IF MessageHas({"ServiceUnavailable", "InternalError", "500"})
    THEN "SERVICE_UNAVAILABLE"
    ELSE IF MessageHas({"LimitExceeded", "exceeded your current quota"})
    THEN "QUOTA_EXCEEDED"
    ELSE "UNKNOWN"

\* C28: for every message handleAWSError returns exactly one class, the class
\* of the first pattern group that matches, and UNKNOWN exactly when none
\* matches.  So a message containing "RequestLimitExceeded" is never
\* QUOTA_EXCEEDED although it contains "LimitExceeded": it is THROTTLING
\* whenever no earlier group (authentication, authorization) matches it.
C28_FirstMatch ==
    (IsErrCall /\ HasMessage)
        => /\ call.ret.errorType = FirstMatchingClass
           /\ MessageHas({"RequestLimitExceeded"})
                  => /\ call.ret.errorType # "QUOTA_EXCEEDED"
                     /\ call.ret.errorType \in {"AUTHENTICATION", "AUTHORIZATION", "THROTTLING"}
                     /\ call.ret.errorType = "THROTTLING"
                            <=> ~MessageHas({"The security token included in the request is invalid",
                                             "SignatureDoesNotMatch", "InvalidAccessKeyId",
                                             "UnauthorizedOperation", "AccessDenied", "Forbidden"})

\* "RequestLimitExceeded" next to a quota pattern: THROTTLING.
C28_Witness ==
    /\ IsErrCall
    /\ call.error.kind = "Error"
    /\ call.error.message = <<"exceeded your current quota", "RequestLimitExceeded">>
    /\ call.ret.errorType = "THROTTLING"

====
